---- MODULE Spec2Model ----
(***************************************************************************)
(* Model of the AFD (deterministic finite automaton) engine of             *)
(* AFD_Visualizer: the class AFD of afd_core.py and its two dataclass      *)
(* copies in afd_visualizer_enhanced.py and afd_visualizer_enhancedd.py.   *)
(*                                                                         *)
(* An AFD object is a record with the fields of the class.  A string is a  *)
(* sequence of symbols; a Python dict is a function whose DOMAIN is the    *)
(* set of keys; a Python list is a sequence.  Every method is an operator  *)
(* that takes the object (self) and returns the object after the call      *)
(* together with the returned value.                                       *)
(***************************************************************************)
EXTENDS Integers, Sequences, FiniteSets, TLC

VARIABLES
    copie,      \* which copy of the class AFD the object is an instance of
    args,       \* the arguments given to the constructor
    statut,     \* "neuf" (nothing constructed), "construit", "ValueError"
    afd,        \* the AFD object (Aucun while there is none)
    dernier,    \* the last completed method call and what it returned
    repete,     \* what the call before returned, when it was the same call
    fils,       \* the simulations in progress on the object, one per caller
    manuel,     \* the traiter_symbole calls made since the object was reset
    session     \* a Streamlit session: widgets, session_state, the script run

vars == <<copie, args, statut, afd, dernier, repete, fils, manuel, session>>

(***************************************************************************)
(* Bounds and universes of the inputs.                                     *)
(***************************************************************************)
MaxLen == 2

EtatIds == {"q0", "q1"}

SymboleIds == {"a", "b"}

Copies == {"afd_core", "afd_visualizer_enhanced", "afd_visualizer_enhancedd"}

RECURSIVE SeqsUpTo(_, _)
SeqsUpTo(S, n) ==
    IF n = 0 THEN {<<>>}
    ELSE LET shorter == SeqsUpTo(S, n - 1)
         IN  shorter \cup {Append(w, x) : w \in {v \in shorter : Len(v) = n - 1}, x \in S}

\* The strings handed to accepter_chaine and obtenir_chemin.
Chaines == SeqsUpTo(SymboleIds, MaxLen)

\* A row of the transition table: a dict symbol -> state, with an entry at
\* least (a state without entries is modelled by a state without row).
Lignes == UNION {[S -> EtatIds] : S \in (SUBSET SymboleIds) \ {{}}}

\* A transition table: a dict state -> row; a state may have no row.
Tables == UNION {[E -> Lignes] : E \in SUBSET EtatIds}

\* The constructor's arguments.  Nothing here is validated: the declared
\* sets may leave out states or symbols that the other arguments use.  The
\* initial state is q0, or a state that etats does not declare (a declared
\* initial state q1 is the same automaton with the two names exchanged).
Definitions ==
    {d \in [alphabet : {{"a"}, {"a", "b"}},
            etats : {{"q0"}, {"q0", "q1"}},
            etat_initial : EtatIds,
            etats_finaux : {{"q0"}, {"q1"}},
            transitions : Tables] :
        d.etat_initial = "q0" \/ d.etat_initial \notin d.etats}

Aucun == [classe |-> "None"]

AucunAppel == [op |-> "aucun", chaine |-> <<>>, avant |-> "", retour |-> FALSE,
               chemin |-> <<>>, appels |-> 0]

PasRepete == [meme |-> FALSE, retour |-> FALSE, chemin |-> <<>>]

\* A caller that steps the object itself: the symbols handed to
\* traiter_symbole since the last reset, and whether one was rejected.
PasManuel == [actif |-> FALSE, symboles |-> <<>>, rejete |-> FALSE]

NouveauManuel == [actif |-> TRUE, symboles |-> <<>>, rejete |-> FALSE]

\* No Streamlit session: the class is used on its own.
SansSession == [classe |-> "None"]

\* The callers that share one object, and a caller that is not in a call.
Appelants == {1, 2}

AuRepos == [pc |-> "repos", op |-> "aucun", chaine |-> <<>>, i |-> 1,
            chemin |-> <<>>, retour |-> FALSE]

(***************************************************************************)
(* afd_core.py                                                             *)
(***************************************************************************)
\* AFD.__init__: stores the five arguments and sets etat_actuel; it checks
\* nothing and never raises.
init_core(d) ==
    [leve |-> "None",
     self |-> [alphabet |-> d.alphabet, etats |-> d.etats,
               etat_initial |-> d.etat_initial, etats_finaux |-> d.etats_finaux,
               transitions |-> d.transitions, etat_actuel |-> d.etat_initial]]

\* A slip: the assignment of the reset is written the wrong way round.
reinitialiser_core_affectation_inversee(self) ==
    [self EXCEPT !.etat_initial = self.etat_actuel]

reinitialiser_core(self) == [self EXCEPT !.etat_actuel = self.etat_initial]

\* A slip: the alphabet is not consulted, only the table.
traiter_symbole_core_sans_alphabet(self, symbole) ==
    IF /\ self.etat_actuel \in DOMAIN self.transitions
       /\ symbole \in DOMAIN self.transitions[self.etat_actuel]
    THEN [self |-> [self EXCEPT !.etat_actuel =
                           self.transitions[self.etat_actuel][symbole]],
          retour |-> TRUE]
    ELSE [self |-> self, retour |-> FALSE]

\* A slip: a missing entry sends the object back to its initial state.
traiter_symbole_core_echec_reinitialise(self, symbole) ==
    IF symbole \notin self.alphabet
    THEN [self |-> self, retour |-> FALSE]
    ELSE IF /\ self.etat_actuel \in DOMAIN self.transitions
            /\ symbole \in DOMAIN self.transitions[self.etat_actuel]
         THEN [self |-> [self EXCEPT !.etat_actuel =
                                self.transitions[self.etat_actuel][symbole]],
               retour |-> TRUE]
         ELSE [self |-> [self EXCEPT !.etat_actuel = self.etat_initial],
               retour |-> FALSE]

\* A slip: the entry is found but etat_actuel is not assigned.
traiter_symbole_core_sans_affectation(self, symbole) ==
    IF symbole \notin self.alphabet
    THEN [self |-> self, retour |-> FALSE]
    ELSE IF /\ self.etat_actuel \in DOMAIN self.transitions
            /\ symbole \in DOMAIN self.transitions[self.etat_actuel]
         THEN [self |-> self, retour |-> TRUE]
         ELSE [self |-> self, retour |-> FALSE]

\* A slip: the object moves to the key of the entry instead of its value.
traiter_symbole_core_etat_symbole(self, symbole) ==
    IF symbole \notin self.alphabet
    THEN [self |-> self, retour |-> FALSE]
    ELSE IF /\ self.etat_actuel \in DOMAIN self.transitions
            /\ symbole \in DOMAIN self.transitions[self.etat_actuel]
         THEN [self |-> [self EXCEPT !.etat_actuel = symbole], retour |-> TRUE]
         ELSE [self |-> self, retour |-> FALSE]

traiter_symbole_core(self, symbole) ==
    IF symbole \notin self.alphabet
    THEN [self |-> self, retour |-> FALSE]
    ELSE IF /\ self.etat_actuel \in DOMAIN self.transitions
            /\ symbole \in DOMAIN self.transitions[self.etat_actuel]
         THEN [self |-> [self EXCEPT !.etat_actuel =
                                self.transitions[self.etat_actuel][symbole]],
               retour |-> TRUE]
         ELSE [self |-> self, retour |-> FALSE]

\* A slip: break instead of return False, so that a rejected string is judged
\* by the state the run stopped in.
RECURSIVE boucle_accepter_core_break(_, _, _)
boucle_accepter_core_break(self, chaine, appels) ==
    IF chaine = <<>>
    THEN [self |-> self, retour |-> self.etat_actuel \in self.etats_finaux,
          appels |-> appels]
    ELSE LET r == traiter_symbole_core(self, Head(chaine))
         IN  IF ~r.retour
             THEN [self |-> r.self, retour |-> r.self.etat_actuel \in self.etats_finaux,
                   appels |-> appels + 1]
             ELSE boucle_accepter_core_break(r.self, Tail(chaine), appels + 1)

\* A slip: continue instead of return False, so that a rejected symbol is
\* skipped.
RECURSIVE boucle_accepter_core_continue(_, _, _)
boucle_accepter_core_continue(self, chaine, appels) ==
    IF chaine = <<>>
    THEN [self |-> self, retour |-> self.etat_actuel \in self.etats_finaux,
          appels |-> appels]
    ELSE LET r == traiter_symbole_core(self, Head(chaine))
         IN  boucle_accepter_core_continue(r.self, Tail(chaine), appels + 1)

\* A slip: the final test reads self.etats instead of self.etats_finaux.
RECURSIVE boucle_accepter_core_etats(_, _, _)
boucle_accepter_core_etats(self, chaine, appels) ==
    IF chaine = <<>>
    THEN [self |-> self, retour |-> self.etat_actuel \in self.etats,
          appels |-> appels]
    ELSE LET r == traiter_symbole_core(self, Head(chaine))
         IN  IF ~r.retour
             THEN [self |-> r.self, retour |-> FALSE, appels |-> appels + 1]
             ELSE boucle_accepter_core_etats(r.self, Tail(chaine), appels + 1)

\* A slip: the loop returns True as soon as a step lands on an accepting
\* state.
RECURSIVE boucle_accepter_core_arret_final(_, _, _)
boucle_accepter_core_arret_final(self, chaine, appels) ==
    IF chaine = <<>>
    THEN [self |-> self, retour |-> self.etat_actuel \in self.etats_finaux,
          appels |-> appels]
    ELSE LET r == traiter_symbole_core(self, Head(chaine))
         IN  IF ~r.retour
             THEN [self |-> r.self, retour |-> FALSE, appels |-> appels + 1]
             ELSE IF r.self.etat_actuel \in self.etats_finaux
                  THEN [self |-> r.self, retour |-> TRUE, appels |-> appels + 1]
                  ELSE boucle_accepter_core_arret_final(r.self, Tail(chaine),
                                                        appels + 1)

\* The for loop of accepter_chaine; appels counts the calls of traiter_symbole.
RECURSIVE boucle_accepter_core(_, _, _)
boucle_accepter_core(self, chaine, appels) ==
    IF chaine = <<>>
    THEN [self |-> self, retour |-> self.etat_actuel \in self.etats_finaux,
          appels |-> appels]
    ELSE LET r == traiter_symbole_core(self, Head(chaine))
         IN  IF ~r.retour
             THEN [self |-> r.self, retour |-> FALSE, appels |-> appels + 1]
             ELSE boucle_accepter_core(r.self, Tail(chaine), appels + 1)

\* A slip: the call does not reset the object first.
accepter_chaine_core_sans_reinitialiser(self, chaine) ==
    boucle_accepter_core(self, chaine, 0)

accepter_chaine_core(self, chaine) ==
    boucle_accepter_core(reinitialiser_core(self), chaine, 0)

\* A slip: continue instead of break, so that the symbols after a rejected
\* one are still processed.
RECURSIVE boucle_chemin_core_continue(_, _, _, _)
boucle_chemin_core_continue(self, chaine, chemin, appels) ==
    IF chaine = <<>>
    THEN [self |-> self, chemin |-> chemin, appels |-> appels]
    ELSE LET r == traiter_symbole_core(self, Head(chaine))
         IN  IF r.retour
             THEN boucle_chemin_core_continue(r.self, Tail(chaine),
                                     Append(chemin, r.self.etat_actuel), appels + 1)
             ELSE boucle_chemin_core_continue(r.self, Tail(chaine), chemin,
                                              appels + 1)

\* The for loop of obtenir_chemin.
RECURSIVE boucle_chemin_core(_, _, _, _)
boucle_chemin_core(self, chaine, chemin, appels) ==
    IF chaine = <<>>
    THEN [self |-> self, chemin |-> chemin, appels |-> appels]
    ELSE LET r == traiter_symbole_core(self, Head(chaine))
         IN  IF r.retour
             THEN boucle_chemin_core(r.self, Tail(chaine),
                                     Append(chemin, r.self.etat_actuel), appels + 1)
             ELSE [self |-> r.self, chemin |-> chemin, appels |-> appels + 1]

\* A slip: the path is started before the reset.
obtenir_chemin_core_chemin_avant_reinitialiser(self, chaine) ==
    boucle_chemin_core(reinitialiser_core(self), chaine, <<self.etat_actuel>>, 0)

\* A slip: the call does not reset the object first.
obtenir_chemin_core_sans_reinitialiser(self, chaine) ==
    boucle_chemin_core(self, chaine, <<self.etat_actuel>>, 0)

obtenir_chemin_core(self, chaine) ==
    LET s0 == reinitialiser_core(self)
    IN  boucle_chemin_core(s0, chaine, <<s0.etat_actuel>>, 0)

(***************************************************************************)
(* afd_visualizer_enhanced.py                                           *)
(***************************************************************************)
reinitialiser_enhanced(self) == [self EXCEPT !.etat_actuel = self.etat_initial]

\* The dataclass: the generated __init__ stores the five arguments, then
\* __post_init__ checks etat_initial and etats_finaux against etats and
\* raises ValueError, or resets.  The transitions are not checked.
post_init_enhanced(d) ==
    LET self == [alphabet |-> d.alphabet, etats |-> d.etats,
                 etat_initial |-> d.etat_initial, etats_finaux |-> d.etats_finaux,
                 transitions |-> d.transitions, etat_actuel |-> ""]
    IN  IF self.etat_initial \notin self.etats
        THEN [leve |-> "ValueError", self |-> Aucun]
        ELSE IF \E e \in self.etats_finaux : e \notin self.etats
             THEN [leve |-> "ValueError", self |-> Aucun]
             ELSE [leve |-> "None", self |-> reinitialiser_enhanced(self)]

traiter_symbole_enhanced(self, symbole) ==
    IF symbole \notin self.alphabet
    THEN [self |-> self, retour |-> FALSE]
    ELSE LET trans == IF self.etat_actuel \in DOMAIN self.transitions
                      THEN self.transitions[self.etat_actuel]
                      ELSE [x \in {} |-> ""]
         IN  IF symbole \in DOMAIN trans
             THEN [self |-> [self EXCEPT !.etat_actuel = trans[symbole]],
                   retour |-> TRUE]
             ELSE [self |-> self, retour |-> FALSE]

RECURSIVE boucle_accepter_enhanced(_, _, _)
boucle_accepter_enhanced(self, chaine, appels) ==
    IF chaine = <<>>
    THEN [self |-> self, retour |-> self.etat_actuel \in self.etats_finaux,
          appels |-> appels]
    ELSE LET r == traiter_symbole_enhanced(self, Head(chaine))
         IN  IF ~r.retour
             THEN [self |-> r.self, retour |-> FALSE, appels |-> appels + 1]
             ELSE boucle_accepter_enhanced(r.self, Tail(chaine), appels + 1)

accepter_chaine_enhanced(self, chaine) ==
    boucle_accepter_enhanced(reinitialiser_enhanced(self), chaine, 0)

RECURSIVE boucle_chemin_enhanced(_, _, _, _)
boucle_chemin_enhanced(self, chaine, chemin, appels) ==
    IF chaine = <<>>
    THEN [self |-> self, chemin |-> chemin, appels |-> appels]
    ELSE LET r == traiter_symbole_enhanced(self, Head(chaine))
         IN  IF r.retour
             THEN boucle_chemin_enhanced(r.self, Tail(chaine),
                                     Append(chemin, r.self.etat_actuel), appels + 1)
             ELSE [self |-> r.self, chemin |-> chemin, appels |-> appels + 1]

\* A slip: the path starts empty instead of holding the initial state.
obtenir_chemin_enhanced_sans_depart(self, chaine) ==
    LET s0 == reinitialiser_enhanced(self)
    IN  boucle_chemin_enhanced(s0, chaine, <<>>, 0)

obtenir_chemin_enhanced(self, chaine) ==
    LET s0 == reinitialiser_enhanced(self)
    IN  boucle_chemin_enhanced(s0, chaine, <<s0.etat_actuel>>, 0)

(***************************************************************************)
(* afd_visualizer_enhancedd.py                                          *)
(***************************************************************************)
reinitialiser_enhancedd(self) == [self EXCEPT !.etat_actuel = self.etat_initial]

\* The dataclass: the generated __init__ stores the five arguments, then
\* __post_init__ checks etat_initial and etats_finaux against etats and
\* raises ValueError, or resets.  The transitions are not checked.
post_init_enhancedd(d) ==
    LET self == [alphabet |-> d.alphabet, etats |-> d.etats,
                 etat_initial |-> d.etat_initial, etats_finaux |-> d.etats_finaux,
                 transitions |-> d.transitions, etat_actuel |-> ""]
    IN  IF self.etat_initial \notin self.etats
        THEN [leve |-> "ValueError", self |-> Aucun]
        ELSE IF \E e \in self.etats_finaux : e \notin self.etats
             THEN [leve |-> "ValueError", self |-> Aucun]
             ELSE [leve |-> "None", self |-> reinitialiser_enhancedd(self)]

traiter_symbole_enhancedd(self, symbole) ==
    IF symbole \notin self.alphabet
    THEN [self |-> self, retour |-> FALSE]
    ELSE LET trans == IF self.etat_actuel \in DOMAIN self.transitions
                      THEN self.transitions[self.etat_actuel]
                      ELSE [x \in {} |-> ""]
         IN  IF symbole \in DOMAIN trans
             THEN [self |-> [self EXCEPT !.etat_actuel = trans[symbole]],
                   retour |-> TRUE]
             ELSE [self |-> self, retour |-> FALSE]

RECURSIVE boucle_accepter_enhancedd(_, _, _)
boucle_accepter_enhancedd(self, chaine, appels) ==
    IF chaine = <<>>
    THEN [self |-> self, retour |-> self.etat_actuel \in self.etats_finaux,
          appels |-> appels]
    ELSE LET r == traiter_symbole_enhancedd(self, Head(chaine))
         IN  IF ~r.retour
             THEN [self |-> r.self, retour |-> FALSE, appels |-> appels + 1]
             ELSE boucle_accepter_enhancedd(r.self, Tail(chaine), appels + 1)

accepter_chaine_enhancedd(self, chaine) ==
    boucle_accepter_enhancedd(reinitialiser_enhancedd(self), chaine, 0)

RECURSIVE boucle_chemin_enhancedd(_, _, _, _)
boucle_chemin_enhancedd(self, chaine, chemin, appels) ==
    IF chaine = <<>>
    THEN [self |-> self, chemin |-> chemin, appels |-> appels]
    ELSE LET r == traiter_symbole_enhancedd(self, Head(chaine))
         IN  IF r.retour
             THEN boucle_chemin_enhancedd(r.self, Tail(chaine),
                                     Append(chemin, r.self.etat_actuel), appels + 1)
             ELSE [self |-> r.self, chemin |-> chemin, appels |-> appels + 1]

obtenir_chemin_enhancedd(self, chaine) ==
    LET s0 == reinitialiser_enhancedd(self)
    IN  boucle_chemin_enhancedd(s0, chaine, <<s0.etat_actuel>>, 0)

(***************************************************************************)
(* The method of the object's own class.                                   *)
(***************************************************************************)
AFD(c, d) ==
    CASE c = "afd_core" -> init_core(d)
      [] c = "afd_visualizer_enhanced" -> post_init_enhanced(d)
      [] c = "afd_visualizer_enhancedd" -> post_init_enhancedd(d)

reinitialiser(c, self) ==
    CASE c = "afd_core" -> reinitialiser_core(self)
      [] c = "afd_visualizer_enhanced" -> reinitialiser_enhanced(self)
      [] c = "afd_visualizer_enhancedd" -> reinitialiser_enhancedd(self)

traiter_symbole(c, self, symbole) ==
    CASE c = "afd_core" -> traiter_symbole_core(self, symbole)
      [] c = "afd_visualizer_enhanced" -> traiter_symbole_enhanced(self, symbole)
      [] c = "afd_visualizer_enhancedd" -> traiter_symbole_enhancedd(self, symbole)

accepter_chaine(c, self, chaine) ==
    CASE c = "afd_core" -> accepter_chaine_core(self, chaine)
      [] c = "afd_visualizer_enhanced" -> accepter_chaine_enhanced(self, chaine)
      [] c = "afd_visualizer_enhancedd" -> accepter_chaine_enhancedd(self, chaine)

obtenir_chemin(c, self, chaine) ==
    CASE c = "afd_core" -> obtenir_chemin_core(self, chaine)
      [] c = "afd_visualizer_enhanced" -> obtenir_chemin_enhanced(self, chaine)
      [] c = "afd_visualizer_enhancedd" -> obtenir_chemin_enhancedd(self, chaine)

(***************************************************************************)
(* The state machine: one object, its methods called one after another.    *)
(***************************************************************************)
Init ==
    /\ copie = "None"
    /\ args = Aucun
    /\ statut = "neuf"
    /\ afd = Aucun
    /\ dernier = AucunAppel
    /\ repete = PasRepete
    /\ fils = [f \in Appelants |-> AuRepos]
    /\ manuel = PasManuel
    /\ session = SansSession

\* What the call before returned, when the call now made is the same call.
Repetition(op, chaine) ==
    IF dernier.op = op /\ dernier.chaine = chaine
    THEN [meme |-> TRUE, retour |-> dernier.retour, chemin |-> dernier.chemin]
    ELSE PasRepete

\* AFD(alphabet, etats, etat_initial, etats_finaux, transitions)
Construire(c, d) ==
    /\ statut = "neuf"
    /\ LET r == AFD(c, d)
       IN  /\ statut' = IF r.leve = "None" THEN "construit" ELSE r.leve
           /\ afd' = r.self
           /\ manuel' = IF r.leve = "None" THEN NouveauManuel ELSE PasManuel
    /\ copie' = c
    /\ args' = d
    /\ UNCHANGED <<dernier, repete, fils, session>>

\* afd.reinitialiser()
Reinitialiser ==
    /\ statut = "construit"
    /\ afd' = reinitialiser(copie, afd)
    /\ dernier' = [op |-> "reinitialiser", chaine |-> <<>>, avant |-> afd.etat_actuel,
                   retour |-> FALSE, chemin |-> <<>>, appels |-> 0]
    /\ repete' = PasRepete
    /\ manuel' = NouveauManuel
    /\ UNCHANGED <<copie, args, statut, fils, session>>

\* afd.traiter_symbole(symbole)
TraiterSymbole(symbole) ==
    /\ statut = "construit"
    /\ LET r == traiter_symbole(copie, afd, symbole)
       IN  /\ afd' = r.self
           /\ dernier' = [op |-> "traiter_symbole", chaine |-> <<symbole>>,
                          avant |-> afd.etat_actuel, retour |-> r.retour,
                          chemin |-> <<>>, appels |-> 1]
           /\ manuel' = IF /\ manuel.actif
                           /\ ~manuel.rejete
                           /\ Len(manuel.symboles) < MaxLen
                        THEN [actif |-> TRUE,
                              symboles |-> Append(manuel.symboles, symbole),
                              rejete |-> ~r.retour]
                        ELSE PasManuel
    /\ repete' = PasRepete
    /\ UNCHANGED <<copie, args, statut, fils, session>>

\* afd.accepter_chaine(chaine)
AccepterChaine(chaine) ==
    /\ statut = "construit"
    /\ LET r == accepter_chaine(copie, afd, chaine)
       IN  /\ afd' = r.self
           /\ dernier' = [op |-> "accepter_chaine", chaine |-> chaine,
                          avant |-> afd.etat_actuel, retour |-> r.retour,
                          chemin |-> <<>>, appels |-> r.appels]
    /\ repete' = Repetition("accepter_chaine", chaine)
    /\ manuel' = PasManuel
    /\ UNCHANGED <<copie, args, statut, fils, session>>

\* afd.obtenir_chemin(chaine)
ObtenirChemin(chaine) ==
    /\ statut = "construit"
    /\ LET r == obtenir_chemin(copie, afd, chaine)
       IN  /\ afd' = r.self
           /\ dernier' = [op |-> "obtenir_chemin", chaine |-> chaine,
                          avant |-> afd.etat_actuel, retour |-> FALSE,
                          chemin |-> r.chemin, appels |-> r.appels]
    /\ repete' = Repetition("obtenir_chemin", chaine)
    /\ manuel' = PasManuel
    /\ UNCHANGED <<copie, args, statut, fils, session>>

Next ==
    \/ \E c \in Copies, d \in Definitions : Construire(c, d)
    \/ Reinitialiser
    \/ \E s \in SymboleIds : TraiterSymbole(s)
    \/ \E ch \in Chaines : AccepterChaine(ch)
    \/ \E ch \in Chaines : ObtenirChemin(ch)

Spec == Init /\ [][Next]_vars

(***************************************************************************)
(* Several simulations on one object.  Each caller runs accepter_chaine or *)
(* obtenir_chemin on the object that creer_afd_exemple built; the calls    *)
(* that a method makes on self (reinitialiser, traiter_symbole) and its    *)
(* reads of self.etat_actuel are the steps, and the steps of the callers   *)
(* interleave.  The object has the single field etat_actuel for all of     *)
(* them.                                                                   *)
(***************************************************************************)
\* A slip in the table: q2 stays on itself when it reads b.
creer_afd_exemple_coquille ==
    [alphabet |-> {"a", "b"},
     etats |-> {"q0", "q1", "q2"},
     etat_initial |-> "q0",
     etats_finaux |-> {"q2"},
     transitions |->
        [e \in {"q0", "q1", "q2"} |->
            CASE e = "q0" -> [s \in {"a", "b"} |-> IF s = "a" THEN "q1" ELSE "q0"]
              [] e = "q1" -> [s \in {"a", "b"} |-> IF s = "a" THEN "q1" ELSE "q2"]
              [] e = "q2" -> [s \in {"a", "b"} |-> IF s = "a" THEN "q1" ELSE "q2"]]]

\* A slip in the table: the entry at (q2, b) is left out.
creer_afd_exemple_partiel ==
    [alphabet |-> {"a", "b"},
     etats |-> {"q0", "q1", "q2"},
     etat_initial |-> "q0",
     etats_finaux |-> {"q2"},
     transitions |->
        [e \in {"q0", "q1", "q2"} |->
            CASE e = "q0" -> [s \in {"a", "b"} |-> IF s = "a" THEN "q1" ELSE "q0"]
              [] e = "q1" -> [s \in {"a", "b"} |-> IF s = "a" THEN "q1" ELSE "q2"]
              [] e = "q2" -> [s \in {"a"} |-> "q1"]]]

creer_afd_exemple ==
    [alphabet |-> {"a", "b"},
     etats |-> {"q0", "q1", "q2"},
     etat_initial |-> "q0",
     etats_finaux |-> {"q2"},
     transitions |->
        [e \in {"q0", "q1", "q2"} |->
            CASE e = "q0" -> [s \in {"a", "b"} |-> IF s = "a" THEN "q1" ELSE "q0"]
              [] e = "q1" -> [s \in {"a", "b"} |-> IF s = "a" THEN "q1" ELSE "q2"]
              [] e = "q2" -> [s \in {"a", "b"} |-> IF s = "a" THEN "q1" ELSE "q0"]]]

InitFils ==
    /\ copie = "afd_core"
    /\ args = creer_afd_exemple
    /\ statut = "construit"
    /\ afd = AFD(copie, args).self
    /\ dernier = AucunAppel
    /\ repete = PasRepete
    /\ fils = [f \in Appelants |-> AuRepos]
    /\ manuel = PasManuel
    /\ session = SansSession

\* The caller enters accepter_chaine(chaine) or obtenir_chemin(chaine).
Appeler(f, op, chaine) ==
    /\ fils[f].pc = "repos"
    /\ fils' = [fils EXCEPT ![f] = [pc |-> "reinitialiser", op |-> op,
                                    chaine |-> chaine, i |-> 1,
                                    chemin |-> <<>>, retour |-> FALSE]]
    /\ UNCHANGED <<copie, args, statut, afd, dernier, repete, manuel, session>>

\* self.reinitialiser(), the first statement of both methods.
FilReinitialiser(f) ==
    /\ fils[f].pc = "reinitialiser"
    /\ afd' = reinitialiser(copie, afd)
    /\ fils' = [fils EXCEPT ![f].pc =
                   IF fils[f].op = "obtenir_chemin" THEN "chemin" ELSE "boucle"]
    /\ UNCHANGED <<copie, args, statut, dernier, repete, manuel, session>>

\* chemin = [self.etat_actuel]
FilChemin(f) ==
    /\ fils[f].pc = "chemin"
    /\ fils' = [fils EXCEPT ![f].chemin = <<afd.etat_actuel>>, ![f].pc = "boucle"]
    /\ UNCHANGED <<copie, args, statut, afd, dernier, repete, manuel, session>>

\* One turn of the for loop: self.traiter_symbole(symbole).
FilTraiterSymbole(f) ==
    /\ fils[f].pc = "boucle"
    /\ fils[f].i <= Len(fils[f].chaine)
    /\ LET r == traiter_symbole(copie, afd, fils[f].chaine[fils[f].i])
       IN  /\ afd' = r.self
           /\ fils' = [fils EXCEPT ![f] =
                 IF fils[f].op = "accepter_chaine"
                 THEN IF r.retour
                      THEN [fils[f] EXCEPT !.i = fils[f].i + 1]
                      ELSE [fils[f] EXCEPT !.retour = FALSE, !.pc = "fini"]
                 ELSE IF r.retour
                      THEN [fils[f] EXCEPT !.pc = "append"]
                      ELSE [fils[f] EXCEPT !.pc = "fini"]]
    /\ UNCHANGED <<copie, args, statut, dernier, repete, manuel, session>>

\* chemin.append(self.etat_actuel)
FilAppend(f) ==
    /\ fils[f].pc = "append"
    /\ fils' = [fils EXCEPT ![f].chemin = Append(fils[f].chemin, afd.etat_actuel),
                            ![f].i = fils[f].i + 1,
                            ![f].pc = "boucle"]
    /\ UNCHANGED <<copie, args, statut, afd, dernier, repete, manuel, session>>

\* The string is exhausted: return self.etat_actuel in self.etats_finaux,
\* respectively return chemin.
FilFin(f) ==
    /\ fils[f].pc = "boucle"
    /\ fils[f].i > Len(fils[f].chaine)
    /\ fils' = [fils EXCEPT ![f].pc = "fini",
                            ![f].retour =
                                IF fils[f].op = "accepter_chaine"
                                THEN afd.etat_actuel \in afd.etats_finaux
                                ELSE FALSE]
    /\ UNCHANGED <<copie, args, statut, afd, dernier, repete, manuel, session>>

\* The caller has its result and may call again.
FilRetour(f) ==
    /\ fils[f].pc = "fini"
    /\ fils' = [fils EXCEPT ![f] = AuRepos]
    /\ UNCHANGED <<copie, args, statut, afd, dernier, repete, manuel, session>>

NextFils ==
    \/ \E f \in Appelants, ch \in Chaines : Appeler(f, "accepter_chaine", ch)
    \/ \E f \in Appelants, ch \in Chaines : Appeler(f, "obtenir_chemin", ch)
    \/ \E f \in Appelants : FilReinitialiser(f)
    \/ \E f \in Appelants : FilChemin(f)
    \/ \E f \in Appelants : FilTraiterSymbole(f)
    \/ \E f \in Appelants : FilAppend(f)
    \/ \E f \in Appelants : FilFin(f)
    \/ \E f \in Appelants : FilRetour(f)

SpecFils == InitFils /\ [][NextFils]_vars

(***************************************************************************)
(* The Streamlit visualizers afd_visualizer_enhanced.py and                *)
(* afd_visualizer_enhancedd.py.  Every event of the page runs the script   *)
(* again from its first line: the variable afd is unassigned at the start  *)
(* of a run, the widgets hold what the user set, and st.session_state is   *)
(* what the runs before left.  A run goes through the sections of the      *)
(* script in the order of the file; st.stop() and an uncaught exception    *)
(* end it.                                                                 *)
(***************************************************************************)
Visualiseurs == {"afd_visualizer_enhanced", "afd_visualizer_enhancedd"}

\* The sections in the order of each file: the second visualizer has its
\* sidebar after the two columns.
Ordre(c) ==
    IF c = "afd_visualizer_enhanced"
    THEN <<"sidebar", "run_sim", "stepper", "export", "graphe">>
    ELSE <<"run_sim", "stepper", "export", "graphe", "sidebar">>

\* set(liste)
Ens(liste) == {liste[i] : i \in 1..Len(liste)}

\* The files a user uploads: a text that is not JSON, an object without the
\* key etats_finaux, a definition whose initial state is undeclared, and a
\* definition of a two-state automaton that starts in q1 and has no entry
\* at (q1, b).
PasDuJson == [json |-> FALSE, obj |-> Aucun]

SansCle ==
    [json |-> TRUE,
     obj |-> [alphabet |-> <<"a", "b">>, etats |-> <<"q0", "q1">>,
              etat_initial |-> "q0",
              transitions |-> [e \in {"q0"} |-> [s \in {"a"} |-> "q1"]]]]

InitialInconnu ==
    [json |-> TRUE,
     obj |-> [alphabet |-> <<"a", "b">>, etats |-> <<"q0", "q1">>,
              etat_initial |-> "q9", etats_finaux |-> <<"q1">>,
              transitions |-> [e \in {"q0"} |-> [s \in {"a"} |-> "q1"]]]]

DeuxEtats ==
    [json |-> TRUE,
     obj |-> [alphabet |-> <<"a", "b", "a">>, etats |-> <<"q0", "q1">>,
              etat_initial |-> "q1", etats_finaux |-> <<"q0">>,
              transitions |->
                 [e \in {"q0", "q1"} |->
                     IF e = "q1" THEN [s \in {"a"} |-> "q0"]
                     ELSE [s \in {"a", "b"} |-> IF s = "a" THEN "q0" ELSE "q1"]]]]

Televersements == {PasDuJson, SansCle, InitialInconnu, DeuxEtats}

\* What the user types in the text input.
ChainesSession ==
    {<<>>, <<"a", "b">>, <<"a", "b", "b">>, <<"b", "b">>, <<"a", "c">>}

\* parse_afd_from_json: json.loads raises on a text that is not JSON,
\* obj[...] raises KeyError on a missing key, the lists become sets and the
\* constructor of the copy is called.
parse_afd_from_json(c, texte) ==
    IF ~texte.json
    THEN [leve |-> "JSONDecodeError", self |-> Aucun, d |-> Aucun]
    ELSE IF \E k \in {"alphabet", "etats", "etat_initial", "etats_finaux",
                      "transitions"} : k \notin DOMAIN texte.obj
         THEN [leve |-> "KeyError", self |-> Aucun, d |-> Aucun]
         ELSE LET d == [alphabet |-> Ens(texte.obj.alphabet),
                        etats |-> Ens(texte.obj.etats),
                        etat_initial |-> texte.obj.etat_initial,
                        etats_finaux |-> Ens(texte.obj.etats_finaux),
                        transitions |-> texte.obj.transitions]
                  r == AFD(c, d)
              IN  [leve |-> r.leve, self |-> r.self, d |-> d]

\* A slip: when the upload cannot be loaded the example automaton is used.
configurer_repli_exemple(c, mode, uploaded) ==
    LET exemple == [leve |-> "None", self |-> AFD(c, creer_afd_exemple).self,
                    d |-> creer_afd_exemple]
    IN  IF mode = "Example AFD" \/ uploaded = Aucun
        THEN exemple
        ELSE LET r == parse_afd_from_json(c, uploaded)
             IN  IF r.leve = "None" THEN r ELSE exemple

\* The configuration step of the sidebar: the example, or the upload parsed
\* inside try/except, or nothing when no file is uploaded.
configurer(c, mode, uploaded) ==
    IF mode = "Example AFD"
    THEN [leve |-> AFD(c, creer_afd_exemple).leve,
          self |-> AFD(c, creer_afd_exemple).self, d |-> creer_afd_exemple]
    ELSE IF uploaded # Aucun
         THEN parse_afd_from_json(c, uploaded)
         ELSE [leve |-> "NoFile", self |-> Aucun, d |-> Aucun]

SessionNeuve ==
    [pc |-> 0, faites |-> {}, leve |-> "None",
     mode |-> "Example AFD", uploaded |-> Aucun, chaine |-> <<>>,
     bouton |-> "aucun", step_mode |-> "auto",
     present |-> FALSE, last_chaine |-> <<>>, last_chemin |-> <<>>,
     last_accepted |-> FALSE,
     appels |-> 0, idx |-> -1, affiche |-> "", surligne |-> <<>>]

InitSession ==
    /\ copie \in Visualiseurs
    /\ args = Aucun
    /\ statut = "neuf"
    /\ afd = Aucun
    /\ dernier = AucunAppel
    /\ repete = PasRepete
    /\ fils = [f \in Appelants |-> AuRepos]
    /\ manuel = PasManuel
    /\ session = SessionNeuve

\* The section at hand is done: on to the next one, or the run is over.
Avancer(s) ==
    [s EXCEPT !.faites = s.faites \cup {Ordre(copie)[s.pc]},
              !.pc = IF s.pc = Len(Ordre(copie)) THEN 0 ELSE s.pc + 1]

\* st.stop() or an uncaught exception: the run is over.
Arreter(s, leve) ==
    [s EXCEPT !.faites = s.faites \cup {Ordre(copie)[s.pc]},
              !.pc = 0, !.leve = leve]

EnSection(nom) == session.pc > 0 /\ Ordre(copie)[session.pc] = nom

\* An event of the page: the widgets take the values the user gave them and
\* the script starts again; session_state is kept.
Rerun(mode, uploaded, chaine, bouton, step_mode) ==
    /\ session.pc = 0
    /\ session' = [session EXCEPT
                      !.pc = 1, !.faites = {}, !.leve = "None",
                      !.mode = mode, !.uploaded = uploaded, !.chaine = chaine,
                      !.bouton = bouton, !.step_mode = step_mode,
                      !.appels = 0, !.idx = -1, !.affiche = "",
                      !.surligne = <<>>]
    /\ afd' = Aucun
    /\ args' = Aucun
    /\ statut' = "neuf"
    /\ dernier' = AucunAppel
    /\ UNCHANGED <<copie, repete, fils, manuel>>

\* with st.sidebar: the configuration, then the display of the fields.
Sidebar ==
    /\ EnSection("sidebar")
    /\ LET r == configurer(copie, session.mode, session.uploaded)
       IN  /\ afd' = r.self
           /\ args' = r.d
           /\ statut' = IF r.leve = "None" THEN "construit" ELSE r.leve
           /\ session' = IF r.leve = "None" THEN Avancer(session)
                         ELSE Arreter(session, "stop")
    /\ UNCHANGED <<copie, dernier, repete, fils, manuel>>

\* The simulation button: afd.alphabet is read once the string is known
\* not to be empty; the first visualizer stores the path before it calls
\* accepter_chaine, the second after, with the verdict.
RunSim ==
    /\ EnSection("run_sim")
    /\ IF session.bouton # "run_sim" \/ session.chaine = <<>>
       THEN /\ session' = Avancer(session)
            /\ UNCHANGED <<afd, dernier>>
       ELSE IF afd = Aucun
       THEN /\ session' = Arreter(session, "NameError")
            /\ UNCHANGED <<afd, dernier>>
       ELSE IF \E i \in 1..Len(session.chaine) : session.chaine[i] \notin afd.alphabet
       THEN /\ session' = Avancer(session)
            /\ UNCHANGED <<afd, dernier>>
       ELSE LET p == obtenir_chemin(copie, afd, session.chaine)
                r == accepter_chaine(copie, p.self, session.chaine)
            IN  /\ afd' = r.self
                /\ dernier' = [op |-> "accepter_chaine", chaine |-> session.chaine,
                               avant |-> p.self.etat_actuel, retour |-> r.retour,
                               chemin |-> <<>>, appels |-> r.appels]
                /\ session' = Avancer(
                      [session EXCEPT
                          !.present = TRUE,
                          !.last_chaine = session.chaine,
                          !.last_chemin = p.chemin,
                          !.last_accepted =
                              IF copie = "afd_visualizer_enhancedd"
                              THEN r.retour ELSE session.last_accepted,
                          !.appels = 2])
    /\ UNCHANGED <<copie, args, statut, repete, fils, manuel>>

\* The display of the last path: the number input offers 0..len(chemin)-1
\* and chemin[idx] is shown; the automatic mode shows every state in turn.
Stepper ==
    /\ EnSection("stepper")
    /\ IF ~session.present
       THEN session' = Avancer(session)
       ELSE IF session.step_mode = "pas"
       THEN IF session.last_chemin = <<>>
            THEN session' = Arreter(session, "StreamlitAPIException")
            ELSE \E idx \in 0..(Len(session.last_chemin) - 1) :
                    session' = Avancer([session EXCEPT
                                   !.idx = idx,
                                   !.affiche = session.last_chemin[idx + 1]])
       ELSE session' = Avancer([session EXCEPT
                          !.affiche = IF session.last_chemin = <<>> THEN ""
                                      ELSE session.last_chemin[Len(session.last_chemin)]])
    /\ UNCHANGED <<copie, args, statut, afd, dernier, repete, fils, manuel>>

\* The export buttons read the fields of afd when one of them is clicked.
Export ==
    /\ EnSection("export")
    /\ session' = IF session.bouton # "export" THEN Avancer(session)
                  ELSE IF afd = Aucun THEN Arreter(session, "NameError")
                  ELSE Avancer(session)
    /\ UNCHANGED <<copie, args, statut, afd, dernier, repete, fils, manuel>>

\* with col2: highlight_path is last_chemin when it is there and not empty,
\* and afd_to_graphviz(afd, highlight_path) is called in every run.
Graphe ==
    /\ EnSection("graphe")
    /\ session' = IF afd = Aucun THEN Arreter(session, "NameError")
                  ELSE Avancer([session EXCEPT
                          !.surligne = IF session.present
                                       THEN session.last_chemin ELSE <<>>])
    /\ UNCHANGED <<copie, args, statut, afd, dernier, repete, fils, manuel>>

NextSession ==
    \/ \E chaine \in ChainesSession, bouton \in {"aucun", "run_sim", "export"},
          step_mode \in {"auto", "pas"} :
            \/ Rerun("Example AFD", Aucun, chaine, bouton, step_mode)
            \/ \E uploaded \in Televersements \cup {Aucun} :
                  Rerun("Upload JSON", uploaded, chaine, bouton, step_mode)
    \/ Sidebar
    \/ RunSim
    \/ Stepper
    \/ Export
    \/ Graphe

SpecSession == InitSession /\ [][NextSession]_vars

(***************************************************************************)
(* Vocabulary of the properties.                                           *)
(***************************************************************************)
\* The three construction invariants of a definition.
Valide(d) ==
    /\ d.etat_initial \in d.etats
    /\ d.etats_finaux \subseteq d.etats
    /\ \A e \in DOMAIN d.transitions :
          /\ e \in d.etats
          /\ \A s \in DOMAIN d.transitions[e] :
                s \in d.alphabet /\ d.transitions[e][s] \in d.etats

\* The table has an entry at (etat, symbole).
Entree(T, etat, symbole) == etat \in DOMAIN T /\ symbole \in DOMAIN T[etat]

\* The state the table leads to from etat over the word w, "bloque" when an
\* entry is missing on the way.
RECURSIVE Delta(_, _, _)
Delta(T, etat, w) ==
    IF w = <<>> THEN etat
    ELSE IF Entree(T, etat, Head(w)) THEN Delta(T, T[etat][Head(w)], Tail(w))
         ELSE "bloque"

\* The positions of the symbols of chaine that are outside the alphabet.
HorsAlphabet(self, chaine) == {i \in 1..Len(chaine) : chaine[i] \notin self.alphabet}

Min(S) == CHOOSE x \in S : \A y \in S : x <= y

Appele(op) == statut = "construit" /\ dernier.op = op

Max(S) == CHOOSE x \in S : \A y \in S : x >= y

\* Every symbol of w is in the alphabet and the table has an entry for each
\* of them on the way from etat_initial.
Franchissable(self, w) ==
    /\ \A i \in 1..Len(w) : w[i] \in self.alphabet
    /\ Delta(self.transitions, self.etat_initial, w) # "bloque"

\* The number of symbols of chaine before the first one that is rejected
\* (Len(chaine) when none is).
NbPas(self, chaine) ==
    Max({n \in 0..Len(chaine) : Franchissable(self, SubSeq(chaine, 1, n))})

\* The state reached from etat_initial over the first n symbols of chaine.
Atteint(self, chaine, n) ==
    Delta(self.transitions, self.etat_initial, SubSeq(chaine, 1, n))

\* The object as the constructor leaves it.
Frais == AFD(copie, args).self

(***************************************************************************)
(* C1: accepter_chaine on the empty string returns True exactly when       *)
(* etat_initial is in etats_finaux, calls traiter_symbole not once, and    *)
(* leaves etat_actuel equal to etat_initial (whatever the object's state   *)
(* before the call, and also when the definition is not valid).            *)
(***************************************************************************)
C1_ChaineVide ==
    (Appele("accepter_chaine") /\ dernier.chaine = <<>>) =>
        /\ dernier.retour = (afd.etat_initial \in afd.etats_finaux)
        /\ dernier.appels = 0
        /\ afd.etat_actuel = afd.etat_initial

\* The empty string is accepted by a valid automaton that the calls before
\* had left in another state than the initial one.
C1_Temoin ==
    /\ Appele("accepter_chaine") /\ dernier.chaine = <<>>
    /\ Valide(args)
    /\ dernier.avant # afd.etat_initial
    /\ dernier.retour

(***************************************************************************)
(* C2: the list returned by obtenir_chemin starts with etat_initial, and   *)
(* each consecutive pair path[i], path[i+1] is the table's entry for the   *)
(* i-th symbol: transitions[path[i]][s[i]] exists and equals path[i+1].    *)
(***************************************************************************)
C2_CheminReel ==
    Appele("obtenir_chemin") =>
        LET chemin == dernier.chemin
            s == dernier.chaine
        IN  /\ Len(chemin) >= 1
            /\ Len(chemin) <= Len(s) + 1
            /\ chemin[1] = afd.etat_initial
            /\ \A i \in 1..(Len(chemin) - 1) :
                  /\ Entree(afd.transitions, chemin[i], s[i])
                  /\ afd.transitions[chemin[i]][s[i]] = chemin[i + 1]

\* A path of two transitions that visits two states, from an object that was
\* not in its initial state.
C2_Temoin ==
    /\ Appele("obtenir_chemin")
    /\ Len(dernier.chemin) = 3
    /\ dernier.chemin[2] # dernier.chemin[1]
    /\ dernier.chemin[3] # dernier.chemin[2]
    /\ dernier.avant # afd.etat_initial

(***************************************************************************)
(* C3: when the string holds a symbol outside the alphabet, accepter_chaine*)
(* returns False, and it never goes past the first such symbol, at         *)
(* position k: traiter_symbole is called at most k times; when the table   *)
(* has an entry for each of the k-1 symbols before it, it is called        *)
(* exactly k times (k-1 steps and the rejection) and etat_actuel is the    *)
(* state that those k-1 entries lead to; otherwise the call stops earlier, *)
(* at the first missing entry.                                             *)
(***************************************************************************)
C3_PremierSymboleInvalide ==
    (Appele("accepter_chaine") /\ HorsAlphabet(afd, dernier.chaine) # {}) =>
        LET k == Min(HorsAlphabet(afd, dernier.chaine))
            avant_k == SubSeq(dernier.chaine, 1, k - 1)
            atteint == Delta(afd.transitions, afd.etat_initial, avant_k)
        IN  /\ ~dernier.retour
            /\ dernier.appels <= k
            /\ atteint # "bloque" =>
                  /\ dernier.appels = k
                  /\ afd.etat_actuel = atteint
            /\ atteint = "bloque" => dernier.appels < k

\* A symbol of the alphabet is stepped, then the symbol outside the alphabet
\* is rejected although the table has an entry for it that leads to an
\* accepting state.
C3_Temoin ==
    /\ Appele("accepter_chaine")
    /\ Len(dernier.chaine) = 2
    /\ HorsAlphabet(afd, dernier.chaine) = {2}
    /\ dernier.appels = 2
    /\ afd.etat_actuel # afd.etat_initial
    /\ Entree(afd.transitions, afd.etat_actuel, dernier.chaine[2])
    /\ afd.transitions[afd.etat_actuel][dernier.chaine[2]] \in afd.etats_finaux

(***************************************************************************)
(* C4: accepter_chaine called twice in a row with the same string returns  *)
(* the same verdict both times, and obtenir_chemin called twice in a row   *)
(* with the same string returns the same path both times.                  *)
(***************************************************************************)
C4_DeuxFois ==
    (statut = "construit" /\ repete.meme) =>
        /\ dernier.retour = repete.retour
        /\ dernier.chemin = repete.chemin

\* The same call twice, where the first call left the object away from its
\* initial state.
C4_Temoin ==
    /\ statut = "construit" /\ repete.meme
    /\ dernier.avant # afd.etat_initial
    /\ dernier.appels = Len(dernier.chaine)
    /\ dernier.appels > 0

(***************************************************************************)
(* C5: whatever calls were made on the object before, accepter_chaine(s)   *)
(* and obtenir_chemin(s) return what they return on the object as the      *)
(* constructor leaves it.                                                  *)
(***************************************************************************)
C5_SansMemoire ==
    /\ Appele("accepter_chaine") =>
          dernier.retour = accepter_chaine(copie, Frais, dernier.chaine).retour
    /\ Appele("obtenir_chemin") =>
          dernier.chemin = obtenir_chemin(copie, Frais, dernier.chaine).chemin

\* A string accepted in full by an object that the calls before had left
\* away from its initial state.
C5_Temoin ==
    /\ Appele("accepter_chaine")
    /\ dernier.avant # afd.etat_initial
    /\ dernier.appels = Len(dernier.chaine)
    /\ dernier.appels = MaxLen
    /\ dernier.retour

(***************************************************************************)
(* C10: traiter_symbole called with a symbol outside the alphabet returns  *)
(* False and leaves the object as it was: etat_actuel is the same after    *)
(* the call as before, also when the table has an entry for (etat_actuel,  *)
(* symbol).                                                                *)
(***************************************************************************)
C10_SymboleInvalide ==
    (Appele("traiter_symbole") /\ dernier.chaine[1] \notin afd.alphabet) =>
        /\ ~dernier.retour
        /\ afd.etat_actuel = dernier.avant
        /\ afd = [Frais EXCEPT !.etat_actuel = dernier.avant]

\* The symbol is outside the alphabet and the table has an entry for it at
\* the current state, which leads to another state.
C10_Temoin ==
    /\ Appele("traiter_symbole")
    /\ dernier.chaine[1] \notin afd.alphabet
    /\ Entree(afd.transitions, dernier.avant, dernier.chaine[1])
    /\ afd.transitions[dernier.avant][dernier.chaine[1]] # dernier.avant

(***************************************************************************)
(* C6: simulations that share one automaton object and whose steps         *)
(* interleave do not interfere: a caller's accepter_chaine returns the     *)
(* verdict, and its obtenir_chemin the path, that the same call returns    *)
(* when it runs alone.                                                     *)
(***************************************************************************)
C6_SansInterference ==
    \A f \in Appelants :
        fils[f].pc = "fini" =>
            /\ fils[f].op = "accepter_chaine" =>
                  fils[f].retour = accepter_chaine(copie, Frais, fils[f].chaine).retour
            /\ fils[f].op = "obtenir_chemin" =>
                  fils[f].chemin = obtenir_chemin(copie, Frais, fils[f].chaine).chemin

(***************************************************************************)
(* C7: constructing an automaton whose initial state is not in the state   *)
(* set fails with a definition error and yields no object, in each of the  *)
(* three copies of the class.                                              *)
(***************************************************************************)
C7_EtatInitialRefuse ==
    (statut # "neuf" /\ args.etat_initial \notin args.etats) =>
        (statut = "ValueError" /\ afd = Aucun)

(***************************************************************************)
(* C8: constructing an automaton with an accepting state that is not in    *)
(* the state set fails with a definition error and yields no object, in    *)
(* each of the three copies of the class.                                  *)
(***************************************************************************)
C8_EtatFinalRefuse ==
    (statut # "neuf" /\ ~(args.etats_finaux \subseteq args.etats)) =>
        (statut = "ValueError" /\ afd = Aucun)

(***************************************************************************)
(* C9: constructing an automaton with a transition whose source is not in  *)
(* the state set, whose symbol is not in the alphabet or whose destination *)
(* is not in the state set fails with a definition error and yields no     *)
(* object.                                                                 *)
(***************************************************************************)
TransitionsValides(d) ==
    \A e \in DOMAIN d.transitions :
        /\ e \in d.etats
        /\ \A s \in DOMAIN d.transitions[e] :
              s \in d.alphabet /\ d.transitions[e][s] \in d.etats

C9_TransitionRefusee ==
    (statut # "neuf" /\ ~TransitionsValides(args)) =>
        (statut = "ValueError" /\ afd = Aucun)

(***************************************************************************)
(* C11: traiter_symbole called with a symbol of the alphabet for which the *)
(* table has no entry at (etat_actuel, symbol), also when etat_actuel has  *)
(* no row at all, returns False and leaves etat_actuel (and the whole      *)
(* object) as it was.                                                      *)
(***************************************************************************)
C11_SansTransition ==
    (/\ Appele("traiter_symbole")
     /\ dernier.chaine[1] \in afd.alphabet
     /\ ~Entree(afd.transitions, dernier.avant, dernier.chaine[1])) =>
        /\ ~dernier.retour
        /\ afd.etat_actuel = dernier.avant
        /\ afd = [Frais EXCEPT !.etat_actuel = dernier.avant]

\* The object is away from its initial state, in a state without row, and
\* the symbol is in the alphabet.
C11_Temoin ==
    /\ Appele("traiter_symbole")
    /\ dernier.chaine[1] \in afd.alphabet
    /\ dernier.avant \notin DOMAIN afd.transitions
    /\ dernier.avant # afd.etat_initial
    /\ Valide(args)

(***************************************************************************)
(* C12: traiter_symbole called with a symbol of the alphabet for which     *)
(* transitions[etat_actuel][symbol] is defined sets etat_actuel to that    *)
(* destination, changes nothing else and returns True; the path returned   *)
(* by obtenir_chemin holds, after the initial state, one state per         *)
(* successful step, the i-th being the state reached over the first i      *)
(* symbols.                                                                *)
(***************************************************************************)
C12_Transition ==
    /\ (/\ Appele("traiter_symbole")
        /\ dernier.chaine[1] \in afd.alphabet
        /\ Entree(afd.transitions, dernier.avant, dernier.chaine[1])) =>
           /\ dernier.retour
           /\ afd.etat_actuel = afd.transitions[dernier.avant][dernier.chaine[1]]
           /\ afd = [Frais EXCEPT !.etat_actuel =
                        Frais.transitions[dernier.avant][dernier.chaine[1]]]
    /\ Appele("obtenir_chemin") =>
           /\ Len(dernier.chemin) = 1 + NbPas(afd, dernier.chaine)
           /\ \A i \in 1..NbPas(afd, dernier.chaine) :
                 dernier.chemin[i + 1] = Atteint(afd, dernier.chaine, i)

\* A step from a state other than the initial one to another state.
C12_Temoin ==
    /\ Appele("traiter_symbole")
    /\ dernier.retour
    /\ dernier.avant # afd.etat_initial
    /\ afd.etat_actuel # dernier.avant
    /\ Valide(args)

(***************************************************************************)
(* C13: accepter_chaine stops at the first symbol that traiter_symbole     *)
(* rejects: it returns False at once, also when the state it stopped in is *)
(* accepting, it calls traiter_symbole for none of the symbols that        *)
(* follow, and etat_actuel after the call is the state reached over the    *)
(* symbols before the rejected one.                                        *)
(***************************************************************************)
C13_CourtCircuit ==
    (Appele("accepter_chaine") /\ NbPas(afd, dernier.chaine) < Len(dernier.chaine)) =>
        LET k == NbPas(afd, dernier.chaine)
        IN  /\ ~dernier.retour
            /\ dernier.appels = k + 1
            /\ afd.etat_actuel = Atteint(afd, dernier.chaine, k)

\* The first symbol is rejected in an accepting state, and the table has an
\* entry for the symbol that follows, which is in the alphabet.
C13_Temoin ==
    /\ Appele("accepter_chaine")
    /\ Len(dernier.chaine) = 2
    /\ NbPas(afd, dernier.chaine) = 0
    /\ afd.etat_actuel \in afd.etats_finaux
    /\ dernier.chaine[2] \in afd.alphabet
    /\ Entree(afd.transitions, afd.etat_actuel, dernier.chaine[2])
    /\ Valide(args)

(***************************************************************************)
(* C14: when no symbol of the string is rejected, accepter_chaine returns  *)
(* True exactly when the state reached after the last symbol is in         *)
(* etats_finaux.                                                           *)
(***************************************************************************)
C14_VerdictFinal ==
    (Appele("accepter_chaine") /\ NbPas(afd, dernier.chaine) = Len(dernier.chaine)) =>
        LET fin == Atteint(afd, dernier.chaine, Len(dernier.chaine))
        IN  /\ dernier.retour = (fin \in afd.etats_finaux)
            /\ afd.etat_actuel = fin
            /\ dernier.appels = Len(dernier.chaine)

\* Two symbols consumed by a valid automaton, ending outside etats_finaux
\* after having passed through an accepting state.
C14_Temoin ==
    /\ Appele("accepter_chaine")
    /\ Len(dernier.chaine) = 2
    /\ NbPas(afd, dernier.chaine) = 2
    /\ ~dernier.retour
    /\ afd.etat_actuel \in afd.etats
    /\ Valide(args)

(***************************************************************************)
(* C15: obtenir_chemin stops at the first symbol that traiter_symbole      *)
(* rejects and returns the path built so far: with k symbols before the    *)
(* rejected one the path has exactly k+1 elements, traiter_symbole was     *)
(* called k+1 times, and nothing stands in the path for the rejected       *)
(* symbol or for a symbol after it.                                        *)
(***************************************************************************)
C15_CheminInterrompu ==
    (Appele("obtenir_chemin") /\ NbPas(afd, dernier.chaine) < Len(dernier.chaine)) =>
        LET k == NbPas(afd, dernier.chaine)
        IN  /\ Len(dernier.chemin) = k + 1
            /\ dernier.appels = k + 1
            /\ dernier.chemin[k + 1] = Atteint(afd, dernier.chaine, k)
            /\ afd.etat_actuel = dernier.chemin[k + 1]

\* The first symbol is rejected and the table has an entry for the symbol
\* that follows, which is in the alphabet: the path is the initial state.
C15_Temoin ==
    /\ Appele("obtenir_chemin")
    /\ Len(dernier.chaine) = 2
    /\ NbPas(afd, dernier.chaine) = 0
    /\ dernier.chaine[2] \in afd.alphabet
    /\ Entree(afd.transitions, afd.etat_initial, dernier.chaine[2])
    /\ dernier.avant # afd.etat_initial

(***************************************************************************)
(* C16: acceptance and path tracing agree: accepter_chaine(s) is True      *)
(* exactly when obtenir_chemin(s) has len(s)+1 elements and its last       *)
(* element is in etats_finaux (so a shorter path means False).  Checked    *)
(* after each of the two calls against the other method called next on     *)
(* the same object.                                                        *)
(***************************************************************************)
CheminAccepte(self, chaine, chemin) ==
    /\ Len(chemin) = Len(chaine) + 1
    /\ chemin[Len(chemin)] \in self.etats_finaux

C16_AccordVerdictChemin ==
    /\ Appele("accepter_chaine") =>
          dernier.retour =
              CheminAccepte(afd, dernier.chaine,
                            obtenir_chemin(copie, afd, dernier.chaine).chemin)
    /\ Appele("obtenir_chemin") =>
          accepter_chaine(copie, afd, dernier.chaine).retour =
              CheminAccepte(afd, dernier.chaine, dernier.chemin)

\* A path cut short that ends in an accepting state.
C16_Temoin ==
    /\ Appele("obtenir_chemin")
    /\ Len(dernier.chemin) = Len(dernier.chaine)
    /\ dernier.chemin[Len(dernier.chemin)] \in afd.etats_finaux
    /\ ~accepter_chaine(copie, afd, dernier.chaine).retour

(***************************************************************************)
(* C20: reaching an accepting state does not stop a run.  When the state   *)
(* reached over a proper prefix of the string is accepting, both methods   *)
(* go on with the symbols that remain: accepter_chaine returns True        *)
(* exactly when the whole string is consumed and ends in an accepting      *)
(* state, and obtenir_chemin's path goes on past the accepting state.      *)
(***************************************************************************)
PrefixesAcceptants(self, chaine) ==
    {n \in 0..(Len(chaine) - 1) :
        /\ n <= NbPas(self, chaine)
        /\ Atteint(self, chaine, n) \in self.etats_finaux}

C20_PasDArretSurFinal ==
    LET s == dernier.chaine
        k == NbPas(afd, s)
        tours == IF k = Len(s) THEN k ELSE k + 1
    IN  /\ (Appele("accepter_chaine") /\ PrefixesAcceptants(afd, s) # {}) =>
              /\ dernier.retour = (k = Len(s) /\ Atteint(afd, s, k) \in afd.etats_finaux)
              /\ dernier.appels = tours
              /\ dernier.appels > Min(PrefixesAcceptants(afd, s))
        /\ (Appele("obtenir_chemin") /\ PrefixesAcceptants(afd, s) # {}) =>
              /\ Len(dernier.chemin) = k + 1
              /\ dernier.appels = tours
              /\ dernier.appels > Min(PrefixesAcceptants(afd, s))

\* The first symbol leads to an accepting state, the second one leaves it:
\* the string is not accepted.
C20_Temoin ==
    /\ Appele("accepter_chaine")
    /\ Len(dernier.chaine) = 2
    /\ NbPas(afd, dernier.chaine) = 2
    /\ Atteint(afd, dernier.chaine, 1) \in afd.etats_finaux
    /\ afd.etat_initial \notin afd.etats_finaux
    /\ afd.etat_actuel \notin afd.etats_finaux
    /\ ~dernier.retour
    /\ Valide(args)

(***************************************************************************)
(* C17: a caller that resets the object (or has just constructed it),      *)
(* calls traiter_symbole once per symbol in order, stops at the first      *)
(* rejection, and then takes as verdict "no step was rejected and          *)
(* etat_actuel is in etats_finaux" gets the verdict of accepter_chaine:    *)
(* of accepter_chaine on the symbols stepped when none was rejected, and   *)
(* False, like accepter_chaine on every string that starts with the        *)
(* symbols stepped, when the last one was rejected.                        *)
(***************************************************************************)
CommencePar(chaine, w) ==
    Len(chaine) >= Len(w) /\ SubSeq(chaine, 1, Len(w)) = w

VerdictManuel == ~manuel.rejete /\ afd.etat_actuel \in afd.etats_finaux

C17_PasAPas ==
    (statut = "construit" /\ manuel.actif) =>
        IF manuel.rejete
        THEN \A ch \in Chaines :
                CommencePar(ch, manuel.symboles) =>
                    accepter_chaine(copie, afd, ch).retour = VerdictManuel
        ELSE accepter_chaine(copie, afd, manuel.symboles).retour = VerdictManuel

\* Two symbols stepped by hand, none rejected, ending in an accepting state
\* that is not the initial state.
C17_Temoin ==
    /\ statut = "construit" /\ manuel.actif
    /\ Len(manuel.symboles) = MaxLen
    /\ ~manuel.rejete
    /\ afd.etat_actuel \in afd.etats_finaux
    /\ afd.etat_actuel # afd.etat_initial
    /\ Valide(args)

(***************************************************************************)
(* C18: no method changes the definition: after any sequence of            *)
(* reinitialiser, traiter_symbole, accepter_chaine and obtenir_chemin      *)
(* calls, alphabet, etats, etat_initial, etats_finaux and transitions are  *)
(* the ones given to the constructor.                                      *)
(***************************************************************************)
C18_DefinitionInchangee ==
    statut = "construit" =>
        /\ afd.alphabet = args.alphabet
        /\ afd.etats = args.etats
        /\ afd.etat_initial = args.etat_initial
        /\ afd.etats_finaux = args.etats_finaux
        /\ afd.transitions = args.transitions

\* At least two calls were made and the last one moved the object over two
\* transitions.
C18_Temoin ==
    /\ Appele("obtenir_chemin")
    /\ repete.meme
    /\ Len(dernier.chemin) = 3
    /\ afd.etat_actuel # afd.etat_initial

(***************************************************************************)
(* The example automaton on its own: any of the three copies builds it     *)
(* with creer_afd_exemple, and the strings are those a user can type, the  *)
(* examples of the interface among them (up to four symbols over a and b,  *)
(* and short strings with a symbol outside the alphabet).                  *)
(***************************************************************************)
MaxLenExemple == 4

SymbolesExemple == {"a", "b", "c"}

ChainesExemple ==
    SeqsUpTo({"a", "b"}, MaxLenExemple) \cup SeqsUpTo(SymbolesExemple, MaxLen)

InitExemple ==
    /\ copie \in Copies
    /\ args = creer_afd_exemple
    /\ statut = "construit"
    /\ afd = AFD(copie, args).self
    /\ dernier = AucunAppel
    /\ repete = PasRepete
    /\ fils = [f \in Appelants |-> AuRepos]
    /\ manuel = NouveauManuel
    /\ session = SansSession

NextExemple ==
    \/ Reinitialiser
    \/ \E s \in SymbolesExemple : TraiterSymbole(s)
    \/ \E ch \in ChainesExemple : AccepterChaine(ch)
    \/ \E ch \in ChainesExemple : ObtenirChemin(ch)

SpecExemple == InitExemple /\ [][NextExemple]_vars

(***************************************************************************)
(* C19: the example automaton has alphabet {a,b}, states {q0,q1,q2},       *)
(* initial state q0 and accepting states {q2}; on it accepter_chaine       *)
(* returns True for ab, aab and abab and False for b, aa, abb and ac, and  *)
(* obtenir_chemin returns q0 q1 q2, q0 q1 q1 q2, q0 q1 q2 q1 q2, q0 q0,    *)
(* q0 q1 q1, q0 q1 q2 q0 and q0 q1 for them, whatever was called before.   *)
(***************************************************************************)
Attendus ==
    { [chaine |-> <<"a", "b">>, accepte |-> TRUE,
       chemin |-> <<"q0", "q1", "q2">>],
      [chaine |-> <<"a", "a", "b">>, accepte |-> TRUE,
       chemin |-> <<"q0", "q1", "q1", "q2">>],
      [chaine |-> <<"a", "b", "a", "b">>, accepte |-> TRUE,
       chemin |-> <<"q0", "q1", "q2", "q1", "q2">>],
      [chaine |-> <<"b">>, accepte |-> FALSE,
       chemin |-> <<"q0", "q0">>],
      [chaine |-> <<"a", "a">>, accepte |-> FALSE,
       chemin |-> <<"q0", "q1", "q1">>],
      [chaine |-> <<"a", "b", "b">>, accepte |-> FALSE,
       chemin |-> <<"q0", "q1", "q2", "q0">>],
      [chaine |-> <<"a", "c">>, accepte |-> FALSE,
       chemin |-> <<"q0", "q1">>] }

C19_Exemple ==
    /\ afd.alphabet = {"a", "b"}
    /\ afd.etats = {"q0", "q1", "q2"}
    /\ afd.etat_initial = "q0"
    /\ afd.etats_finaux = {"q2"}
    /\ \A x \in Attendus :
          /\ (Appele("accepter_chaine") /\ dernier.chaine = x.chaine) =>
                dernier.retour = x.accepte
          /\ (Appele("obtenir_chemin") /\ dernier.chaine = x.chaine) =>
                dernier.chemin = x.chemin

\* abb traced on an object that a call before had left in q2.
C19_Temoin ==
    /\ Appele("obtenir_chemin")
    /\ dernier.chaine = <<"a", "b", "b">>
    /\ dernier.avant = "q2"
    /\ dernier.chemin = <<"q0", "q1", "q2", "q0">>

\* ac refused by accepter_chaine, the object left in q1.
C19_TemoinHorsAlphabet ==
    /\ Appele("accepter_chaine")
    /\ dernier.chaine = <<"a", "c">>
    /\ ~dernier.retour
    /\ afd.etat_actuel = "q1"

(***************************************************************************)
(* C21: from any state of the object and for every string, accepter_chaine *)
(* and obtenir_chemin end with a boolean, respectively a path, after at    *)
(* most Len(chaine) calls of traiter_symbole; a symbol outside the         *)
(* alphabet or a missing entry shows in the value returned (False, a path  *)
(* shorter than Len(chaine) + 1) and the object stays usable.              *)
(***************************************************************************)
C21_Termine ==
    statut = "construit" =>
        \A ch \in Chaines :
            LET r == accepter_chaine(copie, afd, ch)
                p == obtenir_chemin(copie, afd, ch)
                rejete == NbPas(afd, ch) < Len(ch)
            IN  /\ r.retour \in BOOLEAN
                /\ r.appels \in 0..Len(ch)
                /\ p.appels \in 0..Len(ch)
                /\ Len(p.chemin) \in 1..(Len(ch) + 1)
                /\ rejete => (~r.retour /\ Len(p.chemin) <= Len(ch))
                /\ (Appele("accepter_chaine") /\ dernier.chaine = ch) =>
                      (dernier.retour = r.retour /\ dernier.appels = r.appels)
                /\ (Appele("obtenir_chemin") /\ dernier.chaine = ch) =>
                      (dernier.chemin = p.chemin /\ dernier.appels = p.appels)

\* accepter_chaine returned False at the second symbol of a string whose
\* first symbol had led to an accepting state.
C21_Temoin ==
    /\ Appele("accepter_chaine")
    /\ Len(dernier.chaine) = MaxLen
    /\ NbPas(afd, dernier.chaine) = 1
    /\ dernier.appels = 2
    /\ ~dernier.retour
    /\ afd.etat_actuel \in afd.etats_finaux

(***************************************************************************)
(* C22: etat_actuel changes only by a successful traiter_symbole and by    *)
(* the reset: a direct traiter_symbole call that changes it returned True  *)
(* and followed the table, accepter_chaine and obtenir_chemin leave the    *)
(* state that a reset and the successful steps lead to, and reinitialiser  *)
(* sets etat_actuel to etat_initial from any state, changes no other       *)
(* field, and applied a second time changes nothing.                       *)
(***************************************************************************)
C22_SeulLePas ==
    [][statut = "construit" =>
        /\ (dernier'.op = "traiter_symbole" /\ afd'.etat_actuel # afd.etat_actuel) =>
              /\ dernier'.retour
              /\ Entree(afd.transitions, afd.etat_actuel, dernier'.chaine[1])
              /\ afd'.etat_actuel =
                    afd.transitions[afd.etat_actuel][dernier'.chaine[1]]
        /\ dernier'.op \in {"accepter_chaine", "obtenir_chemin"} =>
              afd'.etat_actuel =
                  Atteint(afd, dernier'.chaine, NbPas(afd, dernier'.chaine))
        /\ dernier'.op = "reinitialiser" =>
              /\ afd' = [afd EXCEPT !.etat_actuel = afd.etat_initial]
              /\ reinitialiser(copie, afd') = afd'
        /\ dernier'.op = "aucun" => afd' = afd
    ]_vars

\* A reset of an object that was not in its initial state.
C22_Temoin ==
    /\ Appele("reinitialiser")
    /\ dernier.avant # afd.etat_initial
    /\ afd.etat_actuel = afd.etat_initial
    /\ dernier.avant \in afd.etats

(***************************************************************************)
(* C25: on a definition that satisfies the three construction invariants   *)
(* the three copies of the class build the same object, and from every     *)
(* state that object can reach each of the four methods returns the same   *)
(* value and leaves the same object whichever copy runs it.                *)
(***************************************************************************)
C25_CopiesEquivalentes ==
    (statut = "construit" /\ Valide(args)) =>
        \A c \in Copies :
            /\ AFD(c, args) = AFD(copie, args)
            /\ reinitialiser(c, afd) = reinitialiser(copie, afd)
            /\ \A s \in SymboleIds :
                  traiter_symbole(c, afd, s) = traiter_symbole(copie, afd, s)
            /\ \A ch \in Chaines :
                  /\ accepter_chaine(c, afd, ch) = accepter_chaine(copie, afd, ch)
                  /\ obtenir_chemin(c, afd, ch) = obtenir_chemin(copie, afd, ch)

\* An object of a dataclass copy, moved off its initial state, on which a
\* symbol outside the alphabet and a missing entry both occur.
C25_Temoin ==
    /\ statut = "construit" /\ Valide(args)
    /\ copie = "afd_visualizer_enhancedd"
    /\ afd.etat_actuel # afd.etat_initial
    /\ \E s \in SymboleIds : s \notin afd.alphabet
    /\ \E s \in afd.alphabet : ~Entree(afd.transitions, afd.etat_actuel, s)

(***************************************************************************)
(* C26: when the definition satisfies the three construction invariants,   *)
(* etat_actuel is in etats after construction and after any sequence of    *)
(* calls with arbitrary symbols, and so is every element of every path     *)
(* returned.                                                               *)
(***************************************************************************)
C26_EtatDeclare ==
    (statut = "construit" /\ Valide(args)) =>
        /\ afd.etat_actuel \in afd.etats
        /\ \A i \in 1..Len(dernier.chemin) : dernier.chemin[i] \in afd.etats

\* A path over two transitions on a valid definition, the object moved.
C26_Temoin ==
    /\ Appele("obtenir_chemin") /\ Valide(args)
    /\ Len(dernier.chemin) = 3
    /\ afd.etat_actuel # afd.etat_initial
    /\ dernier.avant # afd.etat_initial

(***************************************************************************)
(* C28: when obtenir_chemin returns, etat_actuel is the last element of    *)
(* the path returned; when accepter_chaine returns, etat_actuel is the     *)
(* last element of the path obtenir_chemin returns for the same string.    *)
(***************************************************************************)
Dernier(chemin) == chemin[Len(chemin)]

C28_FinDuChemin ==
    /\ Appele("obtenir_chemin") =>
          /\ dernier.chemin # <<>>
          /\ afd.etat_actuel = Dernier(dernier.chemin)
    /\ Appele("accepter_chaine") =>
          LET p == obtenir_chemin(copie, afd, dernier.chaine)
          IN  /\ p.chemin # <<>>
              /\ afd.etat_actuel = Dernier(p.chemin)
              /\ p.self = afd

\* accepter_chaine stopped at a rejected second symbol, away from the
\* initial state.
C28_Temoin ==
    /\ Appele("accepter_chaine")
    /\ Len(dernier.chaine) = MaxLen
    /\ NbPas(afd, dernier.chaine) = 1
    /\ afd.etat_actuel # afd.etat_initial
    /\ Valide(args)

(***************************************************************************)
(* C23: when the uploaded file cannot be turned into an automaton (it is   *)
(* not JSON, a key is missing, or the constructor refuses the definition)  *)
(* the run has no afd object, not the example's and not an earlier run's,  *)
(* and ends in the sidebar without a call of accepter_chaine or            *)
(* obtenir_chemin.                                                         *)
(***************************************************************************)
EchecConstruction(u) ==
    \/ ~u.json
    \/ \E k \in {"alphabet", "etats", "etat_initial", "etats_finaux",
                 "transitions"} : k \notin DOMAIN u.obj
    \/ u.obj.etat_initial \notin Ens(u.obj.etats)
    \/ ~(Ens(u.obj.etats_finaux) \subseteq Ens(u.obj.etats))

C23_EchecFatal ==
    (/\ "sidebar" \in session.faites
     /\ session.mode = "Upload JSON"
     /\ session.uploaded # Aucun
     /\ EchecConstruction(session.uploaded)) =>
        /\ afd = Aucun
        /\ statut \in {"JSONDecodeError", "KeyError", "ValueError"}
        /\ session.pc = 0
        /\ session.leve = "stop"
        /\ session.appels = 0
        /\ session.faites \cap {"run_sim", "stepper", "export", "graphe"} = {}

\* The user clicked the simulation button with a string of the alphabet,
\* after an earlier run had simulated, and the upload has an undeclared
\* initial state.
C23_Temoin ==
    /\ "sidebar" \in session.faites
    /\ session.uploaded = InitialInconnu
    /\ statut = "ValueError"
    /\ session.bouton = "run_sim"
    /\ session.chaine = <<"a", "b">>
    /\ session.present
    /\ session.pc = 0

(***************************************************************************)
(* C24: in every run of each visualizer afd is assigned before a statement *)
(* reads it: no run ends in a NameError, and the graph is not drawn before *)
(* the sidebar has configured the automaton.                               *)
(***************************************************************************)
C24_AfdAvantLecture ==
    /\ session.leve # "NameError"
    /\ "graphe" \in session.faites => "sidebar" \in session.faites

(***************************************************************************)
(* C27: the path obtenir_chemin returns is never empty, its length is      *)
(* between 1 and Len(chaine) + 1, and it is Len(chaine) + 1 exactly when   *)
(* no symbol was rejected; so the step selector, bounded by 0 and          *)
(* len(chemin) - 1, always has an index to offer and chemin[idx] exists.   *)
(***************************************************************************)
C27_LongueurDuChemin ==
    /\ statut = "construit" =>
          \A ch \in ChainesSession \cup Chaines :
              LET chemin == obtenir_chemin(copie, afd, ch).chemin
              IN  /\ Len(chemin) \in 1..(Len(ch) + 1)
                  /\ (Len(chemin) = Len(ch) + 1) <=> (NbPas(afd, ch) = Len(ch))
    /\ session.present =>
          Len(session.last_chemin) \in 1..(Len(session.last_chaine) + 1)
    /\ session.leve # "StreamlitAPIException"
    /\ ("stepper" \in session.faites /\ session.present) =>
          /\ session.affiche \in Ens(session.last_chemin)
          /\ session.step_mode = "pas" =>
                /\ session.idx \in 0..(Len(session.last_chemin) - 1)
                /\ session.affiche = session.last_chemin[session.idx + 1]

\* The stepper on a path that holds the initial state alone: the first
\* symbol of a string of two was rejected.
C27_Temoin ==
    /\ "stepper" \in session.faites
    /\ session.present
    /\ session.step_mode = "pas"
    /\ Len(session.last_chaine) > 1
    /\ Len(session.last_chemin) = 1
    /\ session.idx = 0

(***************************************************************************)
(* C30: whatever the user did before (example or upload, simulation or     *)
(* not), the path kept as last_chemin, which the stepper shows and the     *)
(* graph highlights, is a path of the automaton loaded in the run: it      *)
(* starts at afd.etat_initial and its states are in afd.etats.             *)
(***************************************************************************)
C30_CheminCourant ==
    (statut = "construit" /\ session.present) =>
        /\ session.last_chemin[1] = afd.etat_initial
        /\ \A i \in 1..Len(session.last_chemin) :
              session.last_chemin[i] \in afd.etats

(***************************************************************************)
(* afd_interface.py: main() builds the example automaton in every run.     *)
(* The verify button checks the string, calls accepter_chaine and          *)
(* obtenir_chemin, and then lists the steps by reading afd.transitions     *)
(* itself; the quick examples call accepter_chaine alone.                  *)
(***************************************************************************)
\* The loop of the detailed steps: afd.transitions[etat_courant][char] with
\* no test before it, so that a missing entry raises KeyError.
RECURSIVE boucle_etapes(_, _, _, _)
boucle_etapes(self, etat_courant, chaine, etats) ==
    IF chaine = <<>>
    THEN [leve |-> "None", etats |-> etats]
    ELSE IF ~(/\ etat_courant \in DOMAIN self.transitions
              /\ Head(chaine) \in DOMAIN self.transitions[etat_courant])
         THEN [leve |-> "KeyError", etats |-> etats]
         ELSE LET etat_suivant == self.transitions[etat_courant][Head(chaine)]
              IN  boucle_etapes(self, etat_suivant, Tail(chaine),
                                Append(etats, etat_suivant))

\* afd.reinitialiser(); etat_courant = afd.etat_initial; the loop.
etapes_detaillees(self, chaine) ==
    LET s0 == reinitialiser_core(self)
        r == boucle_etapes(s0, s0.etat_initial, chaine, <<s0.etat_initial>>)
    IN  [self |-> s0, leve |-> r.leve, etats |-> r.etats]

\* The quick examples of the page.
exemples ==
    {<<"a", "b">>, <<"a", "a", "b">>, <<"b">>, <<"a", "a">>, <<"a", "b", "a", "b">>}

PageNeuve ==
    [pc |-> "attente", bouton |-> "aucun", chaine |-> <<>>, resultat |-> FALSE,
     chemin |-> <<>>, etapes |-> <<>>, leve |-> "None"]

InitInterface ==
    /\ copie = "afd_core"
    /\ args = creer_afd_exemple
    /\ statut = "construit"
    /\ afd = AFD(copie, args).self
    /\ dernier = AucunAppel
    /\ repete = PasRepete
    /\ fils = [f \in Appelants |-> AuRepos]
    /\ manuel = PasManuel
    /\ session = PageNeuve

\* The user clicks the verify button: the script runs again, main() builds
\* the automaton and the handler of the button is entered.
Verifier(chaine) ==
    /\ session.pc = "attente"
    /\ afd' = AFD(copie, creer_afd_exemple).self
    /\ session' = [PageNeuve EXCEPT !.pc = "valider", !.bouton = "verifier",
                                    !.chaine = chaine]
    /\ dernier' = AucunAppel
    /\ UNCHANGED <<copie, args, statut, repete, fils, manuel>>

\* if chaine: if all(char in afd.alphabet for char in chaine): ... else error
Valider ==
    /\ session.pc = "valider"
    /\ session' =
          IF session.chaine = <<>>
          THEN [session EXCEPT !.pc = "attente"]
          ELSE IF \A i \in 1..Len(session.chaine) : session.chaine[i] \in afd.alphabet
               THEN [session EXCEPT !.pc = "accepter_chaine"]
               ELSE [session EXCEPT !.pc = "attente", !.leve = "invalide"]
    /\ UNCHANGED <<copie, args, statut, afd, dernier, repete, fils, manuel>>

\* resultat = afd.accepter_chaine(chaine)
VerifierAccepter ==
    /\ session.pc = "accepter_chaine"
    /\ LET r == accepter_chaine(copie, afd, session.chaine)
       IN  /\ afd' = r.self
           /\ dernier' = [op |-> "accepter_chaine", chaine |-> session.chaine,
                          avant |-> afd.etat_actuel, retour |-> r.retour,
                          chemin |-> <<>>, appels |-> r.appels]
           /\ session' = [session EXCEPT !.resultat = r.retour,
                                         !.pc = "obtenir_chemin"]
    /\ UNCHANGED <<copie, args, statut, repete, fils, manuel>>

\* chemin = afd.obtenir_chemin(chaine)
VerifierChemin ==
    /\ session.pc = "obtenir_chemin"
    /\ LET r == obtenir_chemin(copie, afd, session.chaine)
       IN  /\ afd' = r.self
           /\ dernier' = [op |-> "obtenir_chemin", chaine |-> session.chaine,
                          avant |-> afd.etat_actuel, retour |-> FALSE,
                          chemin |-> r.chemin, appels |-> r.appels]
           /\ session' = [session EXCEPT !.chemin = r.chemin, !.pc = "etapes"]
    /\ UNCHANGED <<copie, args, statut, repete, fils, manuel>>

\* The expander with the detailed steps.
VerifierEtapes ==
    /\ session.pc = "etapes"
    /\ LET r == etapes_detaillees(afd, session.chaine)
       IN  /\ afd' = r.self
           /\ session' = [session EXCEPT !.etapes = r.etats, !.leve = r.leve,
                                         !.pc = "attente"]
    /\ UNCHANGED <<copie, args, statut, dernier, repete, fils, manuel>>

\* A quick example button: resultat = afd.accepter_chaine(exemple).
ExempleRapide(exemple) ==
    /\ session.pc = "attente"
    /\ LET r == accepter_chaine(copie, AFD(copie, creer_afd_exemple).self, exemple)
       IN  /\ afd' = r.self
           /\ dernier' = [op |-> "accepter_chaine", chaine |-> exemple,
                          avant |-> r.self.etat_initial, retour |-> r.retour,
                          chemin |-> <<>>, appels |-> r.appels]
           /\ session' = [PageNeuve EXCEPT !.bouton = "exemple", !.chaine = exemple,
                                           !.resultat = r.retour]
    /\ UNCHANGED <<copie, args, statut, repete, fils, manuel>>

NextInterface ==
    \/ \E chaine \in ChainesExemple : Verifier(chaine)
    \/ Valider
    \/ VerifierAccepter
    \/ VerifierChemin
    \/ VerifierEtapes
    \/ \E exemple \in exemples : ExempleRapide(exemple)

SpecInterface == InitInterface /\ [][NextInterface]_vars

(***************************************************************************)
(* C29: in afd_interface, for every string that is not empty and has all   *)
(* its characters in the alphabet, the detailed steps read from            *)
(* afd.transitions never meet a missing entry, go through the states of    *)
(* obtenir_chemin in the same order, and end in an accepting state exactly *)
(* when accepter_chaine returned True.                                     *)
(***************************************************************************)
C29_EtapesCommeChemin ==
    (/\ session.pc = "attente"
     /\ session.bouton = "verifier"
     /\ session.chaine # <<>>
     /\ \A i \in 1..Len(session.chaine) : session.chaine[i] \in afd.alphabet) =>
        /\ session.leve = "None"
        /\ Len(session.etapes) = Len(session.chaine) + 1
        /\ session.etapes = session.chemin
        /\ (session.etapes[Len(session.etapes)] \in afd.etats_finaux)
              <=> session.resultat

\* abb: the steps come back to q0 through q2, and the string is refused.
C29_Temoin ==
    /\ session.pc = "attente"
    /\ session.bouton = "verifier"
    /\ session.chaine = <<"a", "b", "b">>
    /\ session.etapes = <<"q0", "q1", "q2", "q0">>
    /\ ~session.resultat

(***************************************************************************)
(* C31: the example automaton has an entry for every state and every       *)
(* symbol of its alphabet, and from any state earlier calls left it in,    *)
(* accepter_chaine returns True for a string over {a,b} exactly when the   *)
(* string ends with a then b, and obtenir_chemin returns a path of         *)
(* Len(chaine) + 1 states.                                                 *)
(***************************************************************************)
FinitParAB(chaine) ==
    /\ Len(chaine) >= 2
    /\ chaine[Len(chaine) - 1] = "a"
    /\ chaine[Len(chaine)] = "b"

C31_FinitParAB ==
    /\ \A e \in afd.etats, s \in afd.alphabet : Entree(afd.transitions, e, s)
    /\ \A ch \in SeqsUpTo({"a", "b"}, MaxLenExemple) :
          /\ accepter_chaine(copie, afd, ch).retour = FinitParAB(ch)
          /\ Len(obtenir_chemin(copie, afd, ch).chemin) = Len(ch) + 1
          /\ (Appele("accepter_chaine") /\ dernier.chaine = ch) =>
                dernier.retour = FinitParAB(ch)
          /\ (Appele("obtenir_chemin") /\ dernier.chaine = ch) =>
                Len(dernier.chemin) = Len(ch) + 1

\* A string of the greatest length that ends with ab but does not start
\* with it, accepted on an object that a call before had left in q2.
C31_Temoin ==
    /\ Appele("accepter_chaine")
    /\ Len(dernier.chaine) = MaxLenExemple
    /\ FinitParAB(dernier.chaine)
    /\ dernier.chaine[1] = "b"
    /\ dernier.avant = "q2"
    /\ dernier.retour

====
